---- MODULE Spec2Model ----
(***************************************************************************)
(* ThreadSafeSubject of "03. Observer Pattern/multithreaded_observer_      *)
(* example.py": a list of observers guarded by a threading.Lock, with      *)
(* attach, detach and notify called by several threads.  Every thread has  *)
(* a Python call stack of frames; one action is one step of one thread.    *)
(* Observers are a WorkerObserver, a DatabaseLogger (which takes its own   *)
(* lock inside update) and one further subclass of the abstract Observer,  *)
(* whose update may return, raise, or call back into the subject.          *)
(***************************************************************************)
EXTENDS Integers, Sequences, FiniteSets, TLC

\* ---------------------------------------------------------------- bounds
MaxCalls == 3     \* calls on the subject the threads make in all (nested ones included)

\* The two threads of demonstrate_dynamic_observer_management; here each may
\* call attach, detach and notify.
Threads == {"SystemUpdates", "ObserverManager"}
NoThread == "unlocked"

\* The observers: one object of each class.
Obs == {"worker", "database", "custom"}
Kind(o) == o

VARIABLES
  observers,    \* ThreadSafeSubject._observers
  lock,         \* holder of each threading.Lock: "subject" -> _lock of the
                \* subject, "db" -> _lock of the DatabaseLogger
  stack,        \* per thread: its call stack, innermost frame last
  exc,          \* per thread: the exception in flight (or that ended it)
  raised,       \* history: per thread, the exception as it was raised
  calls,        \* per thread: calls made on the subject so far
  nAttach,      \* history: per observer, the attach calls made with it
  nFound,       \* history: per observer, the detach calls whose membership
                \* test found it
  attachCalls,  \* history: the attach calls so far, while sequential
  pure,         \* history: only attach calls so far mutated the list, one
                \* at a time, with no other call in flight
  status        \* history: per observer, what the last returned call says

\* "06. Singleton": the three singleton classes and the threads constructing
\* them.
VARIABLES
  instance,     \* per class: DatabaseConnection._instance, SingletonMeta.
                \* _instances[ConfigurationManager], instances[LoggerManager]
  heap,         \* the objects created so far; an object's id is its index
  slock,        \* holder of SingletonMeta._lock and of the decorator's lock
  frame,        \* per thread: the constructor call it is in
  results,      \* per thread: the objects its constructor calls returned
  failure,      \* per thread: the exception that ended it
  ctorRuns,     \* history: per class, how often the constructor body has run
  shadow,       \* history: per class, the state its mutator calls have produced
  steps         \* calls made by the main thread

\* "04. Factory Pattern": AnimalFactory and the last create_animal call.
VARIABLES
  animal_types, \* AnimalFactory._animal_types
  request,      \* the arguments of the last create_animal call
  outcome,      \* what that call returned or raised
  animals       \* the animals constructed so far

\* "03. Observer Pattern/observer_pattern_example.py": the plain Subject,
\* used by one thread.
VARIABLES
  simple_observers, \* Subject._observers
  simple_stack,     \* the call stack, innermost frame last
  simple_exc,       \* the exception in flight (or that ended the program)
  simple_request,   \* history: the last attach, detach or notify call
  simple_calls      \* calls made on the subject so far

\* "03. Observer Pattern/multithreaded_observer_example.py" again: the two
\* ThreadSafeSubject objects of the demonstrations, used at the same time.
VARIABLES
  multi_observers,  \* per subject: its _observers
  multi_lock,       \* per subject: the holder of its _lock
  multi_frame,      \* per thread: the call on a subject it is in
  multi_calls       \* calls made on the two subjects so far

\* "06. Singleton/module_singleton_example.py": app_cache, the one _Cache
\* object of the module, used by several threads.
VARIABLES
  cache_data,   \* _Cache.data, a dict
  hits,         \* _Cache.hits
  misses,       \* _Cache.misses
  cache_lock,   \* holder of _Cache._lock
  cache_frame,  \* per thread: the get or set call it is in
  gets,         \* history: the get calls that have returned
  was_set,      \* history: per key, the value of the last set that assigned
  cache_calls   \* calls made on the cache so far

subjectVars == <<observers, lock, stack, exc, raised, calls, nAttach, nFound, attachCalls, pure, status>>
singletonVars == <<instance, heap, slock, frame, results, failure, ctorRuns, shadow, steps>>
factoryVars == <<animal_types, request, outcome, animals>>
simpleVars == <<simple_observers, simple_stack, simple_exc, simple_request, simple_calls>>
multiVars == <<multi_observers, multi_lock, multi_frame, multi_calls>>
cacheVars == <<cache_data, hits, misses, cache_lock, cache_frame, gets, was_set, cache_calls>>
vars == <<subjectVars, singletonVars, factoryVars, simpleVars, multiVars, cacheVars>>

\* What the code of each example leaves alone: the state of the others.
outsideSubject == <<singletonVars, factoryVars, simpleVars, multiVars, cacheVars>>
outsideSingleton == <<subjectVars, factoryVars, simpleVars, multiVars, cacheVars>>
outsideFactory == <<subjectVars, singletonVars, simpleVars, multiVars, cacheVars>>

NoErr == <<>>
ValueError == <<"ValueError">>
ObserverError(o, m) == <<"ObserverError", o, m>>

\* ------------------------------------------------------ list operations
RECURSIVE Count(_, _)
Count(o, s) == IF s = <<>> THEN 0
               ELSE (IF Head(s) = o THEN 1 ELSE 0) + Count(o, Tail(s))

In(o, s) == \E k \in 1..Len(s) : s[k] = o

\* list.append(o)
ListPrepend(s, o) == <<o>> \o s
ListAppendOnce(s, o) == IF In(o, s) THEN s ELSE Append(s, o)
ListAppend(s, o) == Append(s, o)

\* list.remove(o): drops the first occurrence (raises when there is none:
\* see detach_remove).
FirstIndex(o, s) == CHOOSE k \in 1..Len(s) : s[k] = o /\ \A j \in 1..(k-1) : s[j] # o
ListRemoveOffByOne(s, o) == LET k == FirstIndex(o, s)
                            IN SubSeq(s, 1, k) \o SubSeq(s, k+2, Len(s))
ListRemoveLast(s, o) ==
  LET k == CHOOSE j \in 1..Len(s) : s[j] = o /\ \A m \in (j+1)..Len(s) : s[m] # o
  IN SubSeq(s, 1, k-1) \o SubSeq(s, k+1, Len(s))
ListRemove(s, o) == LET k == FirstIndex(o, s)
                    IN SubSeq(s, 1, k-1) \o SubSeq(s, k+1, Len(s))

\* `if observer in self._observers` of detach
DetachNoTest(o, s) == TRUE
DetachTest(o, s) == In(o, s)

IsPrefix(p, s) == Len(p) <= Len(s) /\ SubSeq(s, 1, Len(p)) = p

\* The list when the threads start: the subject as constructed, or with the
\* two observers demonstrate_dynamic_observer_management attaches first
\* (email_admin, which behaves as a worker does, and db_logger).
InitialObservers == {<<>>, <<"worker", "database">>}

\* ---------------------------------------------------------------- frames
SubjectOps == {"attach", "detach", "notify"}
FirstPc(op) == CASE op = "attach"   -> "append"
                 [] op = "detach"   -> "test"
                 [] op = "notify"   -> "copy"
                 [] op = "worker"   -> "sleep"
                 [] op = "database" -> "write"
                 [] op = "custom"   -> "body"

\* The statements of each method that stand inside its `with self._lock:`.
WithBlockNone(op) == {}
WithBlockDispatch(op) == CASE op = "attach"   -> {"append"}
                           [] op = "detach"   -> {"test", "remove"}
                           [] op = "notify"   -> {"copy", "for"}
                           [] op = "database" -> {"write", "sleep"}
                           [] OTHER           -> {}
WithBlockAfterTest(op) == CASE op = "attach"   -> {"append"}
                            [] op = "detach"   -> {"remove"}
                            [] op = "notify"   -> {"copy"}
                            [] op = "database" -> {"write", "sleep"}
                            [] OTHER           -> {}
WithBlock(op) == CASE op = "attach"   -> {"append"}
                   [] op = "detach"   -> {"test", "remove"}
                   [] op = "notify"   -> {"copy"}
                   [] op = "database" -> {"write", "sleep"}
                   [] OTHER           -> {}

LockOf(op) == IF op = "database" THEN "db" ELSE "subject"

Frame(op, o, m) ==
  [op |-> op, pc |-> FirstPc(op), held |-> FALSE, observer |-> o, message |-> m,
   observers_copy |-> <<>>, i |-> 1,
   snap |-> <<>>, delivered |-> <<>>, statusAt |-> [h \in Obs |-> "none"]]

Depth(t) == Len(stack[t])
Top(t) == stack[t][Depth(t)]
Running(t) == Depth(t) > 0 /\ exc[t] = NoErr
SetTop(t, f) == [stack EXCEPT ![t] = [@ EXCEPT ![Len(@)] = f]]
Pop(t) == [stack EXCEPT ![t] = SubSeq(@, 1, Len(@) - 1)]

\* The statement at the frame's pc may run: the frame holds the lock exactly
\* when the statement stands inside the with block.
Ready(f) == (f.pc \in WithBlock(f.op)) = f.held

InFlight(op, o) == \E t \in Threads : \E k \in 1..Depth(t) :
                      stack[t][k].op = op /\ stack[t][k].observer = o
AnyInFlight == \E t \in Threads : Depth(t) > 0
Quiescent == \A t \in Threads : Depth(t) = 0

\* `for observer in observers_copy`: the list the loop of notify walks.
IterTargetLive(f) == observers
IterTarget(f) == f.observers_copy

\* notify has no try/except around observer.update: no frame catches.
CatchesInNotify(op) == op = "notify"
Catches(op) == FALSE

\* ------------------------------------------------------------- history
\* status[o]: "in"       an attach(o) returned and no detach(o) was called since
\*            "outClean" a detach(o) returned, o has been attached no more often
\*                       than a detach found it, and no attach(o) was called since
\*            "outDup"   a detach(o) returned, o has been attached more often
\*                       than a detach found it, and no attach(o) was called since
\*            "mixed"    an attach(o) and a detach(o) overlap
\*            "none"     otherwise
MutatorsInFlight(o) ==
  Cardinality({x \in UNION {{<<t, k>> : k \in 1..Depth(t)} : t \in Threads} :
                 /\ stack[x[1]][x[2]].op \in {"attach", "detach"}
                 /\ stack[x[1]][x[2]].observer = o})

StatusOnCall(op, o) ==
  CASE op = "attach" ->
         IF InFlight("detach", o) THEN [status EXCEPT ![o] = "mixed"]
         ELSE IF status[o] \in {"outClean", "outDup"} THEN [status EXCEPT ![o] = "none"]
         ELSE status
    [] op = "detach" ->
         IF InFlight("attach", o) THEN [status EXCEPT ![o] = "mixed"]
         ELSE IF status[o] = "in" THEN [status EXCEPT ![o] = "none"]
         ELSE status
    [] OTHER -> status

StatusOnReturn(f) ==
  IF f.op \notin {"attach", "detach"} THEN status
  ELSE LET o == f.observer IN
       IF status[o] = "mixed"
       THEN IF MutatorsInFlight(o) = 1 THEN [status EXCEPT ![o] = "none"] ELSE status
       ELSE IF f.op = "attach" THEN [status EXCEPT ![o] = "in"]
       ELSE IF nAttach[o] > nFound[o] THEN [status EXCEPT ![o] = "outDup"]
       ELSE [status EXCEPT ![o] = "outClean"]

\* ------------------------------------------------------------ the calls
RECURSIVE SumCalls(_)
SumCalls(T) == IF T = {} THEN 0
               ELSE LET t == CHOOSE x \in T : TRUE IN calls[t] + SumCalls(T \ {t})
TotalCalls == SumCalls(Threads)

\* A call of attach, detach or notify on the subject, from the thread's
\* function (base = stack) or from inside an observer's update.
Invoke(t, base, op, o) ==
  /\ TotalCalls < MaxCalls
  /\ calls' = [calls EXCEPT ![t] = @ + 1]
  /\ stack' = [base EXCEPT ![t] = Append(@, Frame(op, o, <<t, calls[t] + 1>>))]
  /\ nAttach' = IF op = "attach" THEN [nAttach EXCEPT ![o] = @ + 1] ELSE nAttach
  /\ nFound' = nFound
  /\ IF /\ pure
        /\ \/ op = "attach" /\ ~AnyInFlight
           \/ op = "notify" /\ \A h \in Obs : ~InFlight("attach", h)
     THEN /\ pure' = TRUE
          /\ attachCalls' = IF op = "attach" THEN Append(attachCalls, o) ELSE attachCalls
     ELSE /\ pure' = FALSE
          /\ attachCalls' = <<>>
  /\ status' = StatusOnCall(op, o)
  /\ UNCHANGED <<observers, lock, exc, raised>>
  /\ UNCHANGED outsideSubject

\* The thread's function makes its next call.
MayCall(t) == Depth(t) = 0 /\ exc[t] = NoErr

attach_call(t, o) == MayCall(t) /\ Invoke(t, stack, "attach", o)
detach_call(t, o) == MayCall(t) /\ Invoke(t, stack, "detach", o)
notify_call(t) == MayCall(t) /\ Invoke(t, stack, "notify", "all")

\* ------------------------------------------------------------ the locks
\* `with self._lock:` entered: blocks until the lock is free.
lock_acquire(t) ==
  /\ Running(t)
  /\ LET f == Top(t) IN
       /\ f.pc \in WithBlock(f.op)
       /\ ~f.held
       /\ lock[LockOf(f.op)] = NoThread
       /\ lock' = [lock EXCEPT ![LockOf(f.op)] = t]
       /\ stack' = SetTop(t, [f EXCEPT !.held = TRUE])
  /\ UNCHANGED <<observers, exc, raised, calls, nAttach, nFound, attachCalls, pure, status>>
  /\ UNCHANGED outsideSubject

\* The statement of frame f is done and control is at f2.pc ("end": the
\* method returns).  Leaving the with block releases the lock.
GotoKeepLock(t, f, f2) ==
  /\ lock' = lock
  /\ IF f2.pc = "end"
     THEN /\ stack' = Pop(t)
          /\ status' = StatusOnReturn(f)
     ELSE /\ stack' = SetTop(t, [f2 EXCEPT !.held = f.held /\ f2.pc \in WithBlock(f.op)])
          /\ status' = status
Goto(t, f, f2) ==
  /\ lock' = IF f.held /\ f2.pc \notin WithBlock(f.op)
             THEN [lock EXCEPT ![LockOf(f.op)] = NoThread] ELSE lock
  /\ IF f2.pc = "end"
     THEN /\ stack' = Pop(t)
          /\ status' = StatusOnReturn(f)
     ELSE /\ stack' = SetTop(t, [f2 EXCEPT !.held = f.held /\ f2.pc \in WithBlock(f.op)])
          /\ status' = status

\* ---------------------------------------------------- ThreadSafeSubject
attach_append(t) ==
  /\ Running(t)
  /\ LET f == Top(t) IN
       /\ f.op = "attach" /\ f.pc = "append" /\ Ready(f)
       /\ observers' = ListAppend(observers, f.observer)
       /\ Goto(t, f, [f EXCEPT !.pc = "end"])
  /\ UNCHANGED <<exc, raised, calls, nAttach, nFound, attachCalls, pure>>
  /\ UNCHANGED outsideSubject

detach_test(t) ==
  /\ Running(t)
  /\ LET f == Top(t) IN
       /\ f.op = "detach" /\ f.pc = "test" /\ Ready(f)
       /\ IF DetachTest(f.observer, observers)
          THEN /\ Goto(t, f, [f EXCEPT !.pc = "remove"])
               /\ nFound' = [nFound EXCEPT ![f.observer] = @ + 1]
          ELSE /\ Goto(t, f, [f EXCEPT !.pc = "end"])
               /\ nFound' = nFound
  /\ UNCHANGED <<observers, exc, raised, calls, nAttach, attachCalls, pure>>
  /\ UNCHANGED outsideSubject

\* list.remove raises ValueError when the element is not in the list.
detach_remove(t) ==
  /\ Running(t)
  /\ LET f == Top(t) IN
       /\ f.op = "detach" /\ f.pc = "remove" /\ Ready(f)
       /\ IF In(f.observer, observers)
          THEN /\ observers' = ListRemove(observers, f.observer)
               /\ Goto(t, f, [f EXCEPT !.pc = "end"])
               /\ exc' = exc
               /\ raised' = raised
          ELSE /\ exc' = [exc EXCEPT ![t] = ValueError]
               /\ raised' = [raised EXCEPT ![t] = ValueError]
               /\ UNCHANGED <<observers, lock, stack, status>>
  /\ UNCHANGED <<calls, nAttach, nFound, attachCalls, pure>>
  /\ UNCHANGED outsideSubject

notify_copy(t) ==
  /\ Running(t)
  /\ LET f == Top(t) IN
       /\ f.op = "notify" /\ f.pc = "copy" /\ Ready(f)
       /\ Goto(t, f, [f EXCEPT !.pc = "for", !.observers_copy = observers,
                               !.snap = observers, !.statusAt = status])
  /\ UNCHANGED <<observers, exc, raised, calls, nAttach, nFound, attachCalls, pure>>
  /\ UNCHANGED outsideSubject

\* One turn of `for observer in observers_copy: observer.update(self, message)`:
\* the next observer's update is called, or the loop and the method end.
notify_for(t) ==
  /\ Running(t)
  /\ LET f == Top(t)
         src == IterTarget(f)
     IN /\ f.op = "notify" /\ f.pc = "for" /\ Ready(f)
        /\ IF f.i <= Len(src)
           THEN /\ stack' = [stack EXCEPT ![t] =
                               Append([@ EXCEPT ![Len(@)] =
                                         [f EXCEPT !.i = @ + 1,
                                                   !.delivered = Append(@, src[f.i])]],
                                      Frame(Kind(src[f.i]), src[f.i], f.message))]
                /\ UNCHANGED <<lock, status>>
           ELSE Goto(t, f, [f EXCEPT !.pc = "end"])
  /\ UNCHANGED <<observers, exc, raised, calls, nAttach, nFound, attachCalls, pure>>
  /\ UNCHANGED outsideSubject

\* ------------------------------------------------------------ observers
\* WorkerObserver.update (and AsyncEmailSubscriber.update): sleeps, returns.
WorkerObserver_update(t) ==
  /\ Running(t)
  /\ Top(t).op = "worker" /\ Top(t).pc = "sleep"
  /\ stack' = Pop(t)
  /\ UNCHANGED <<observers, lock, exc, raised, calls, nAttach, nFound, attachCalls, pure, status>>
  /\ UNCHANGED outsideSubject

\* DatabaseLogger.update, inside `with self._lock:`: the "logging" line ...
DatabaseLogger_logging(t) ==
  /\ Running(t)
  /\ LET f == Top(t) IN
       /\ f.op = "database" /\ f.pc = "write" /\ Ready(f)
       /\ Goto(t, f, [f EXCEPT !.pc = "sleep"])
  /\ UNCHANGED <<observers, exc, raised, calls, nAttach, nFound, attachCalls, pure>>
  /\ UNCHANGED outsideSubject

\* ... then the sleep that stands for the write, and the "write completed"
\* line; update returns.
DatabaseLogger_update(t) ==
  /\ Running(t)
  /\ LET f == Top(t) IN
       /\ f.op = "database" /\ f.pc = "sleep" /\ Ready(f)
       /\ Goto(t, f, [f EXCEPT !.pc = "end"])
  /\ UNCHANGED <<observers, exc, raised, calls, nAttach, nFound, attachCalls, pure>>
  /\ UNCHANGED outsideSubject

\* Another Observer subclass: its update returns, raises, or calls the
\* subject once and then returns.
CustomCalls == {<<"attach", "worker">>, <<"detach", "custom">>, <<"notify", "all">>}

custom_return(t) ==
  /\ Running(t)
  /\ Top(t).op = "custom"
  /\ stack' = Pop(t)
  /\ UNCHANGED <<observers, lock, exc, raised, calls, nAttach, nFound, attachCalls, pure, status>>
  /\ UNCHANGED outsideSubject

custom_raise(t) ==
  /\ Running(t)
  /\ Top(t).op = "custom" /\ Top(t).pc = "body"
  /\ exc' = [exc EXCEPT ![t] = ObserverError(Top(t).observer, Top(t).message)]
  /\ raised' = exc'
  /\ UNCHANGED <<observers, lock, stack, calls, nAttach, nFound, attachCalls, pure, status>>
  /\ UNCHANGED outsideSubject

custom_call(t, op, o) ==
  /\ Running(t)
  /\ Top(t).op = "custom" /\ Top(t).pc = "body"
  /\ <<op, o>> \in CustomCalls
  /\ Invoke(t, SetTop(t, [Top(t) EXCEPT !.pc = "after"]), op, o)

\* An exception leaves the innermost frame: a with block it is in releases
\* its lock; with no frame left it has reached the thread's function, which
\* ends the thread.
unwind(t) ==
  /\ exc[t] # NoErr
  /\ Depth(t) > 0
  /\ LET f == Top(t) IN
       IF Catches(f.op)
       THEN /\ exc' = [exc EXCEPT ![t] = NoErr]
            /\ UNCHANGED <<stack, lock>>
       ELSE /\ exc' = exc
            /\ stack' = Pop(t)
            /\ lock' = IF f.held THEN [lock EXCEPT ![LockOf(f.op)] = NoThread] ELSE lock
  /\ UNCHANGED <<observers, raised, calls, nAttach, nFound, attachCalls, pure, status>>
  /\ UNCHANGED outsideSubject

\* ------------------------------------------------------------ singletons
\* basic_singleton_example.py (DatabaseConnection, by __new__),
\* threadsafe_singleton_example.py (ConfigurationManager, by the metaclass
\* SingletonMeta) and decorator_singleton_example.py (LoggerManager, by the
\* decorator singleton).
Classes == {"DatabaseConnection", "ConfigurationManager", "LoggerManager"}

\* The three threads of test_thread_safety, and the main thread.
Workers == {"w1", "w2", "w3"}
MainThread == "main"
SingletonThreads == Workers \cup {MainThread}

\* An object is <<class, n>>: the n-th object of its class to be created;
\* heap[class][n] holds its attributes, a function from names to values.
None == 0
Ref(cls, n) == <<cls, n>>
NoAttrs == <<>>
HasAttr(attrs, k) == k \in DOMAIN attrs
SetAttr(attrs, k, v) == [x \in (DOMAIN attrs) \cup {k} |-> IF x = k THEN v ELSE attrs[x]]

\* Strings that the code changes the case of are sequences of characters.
UpperOf == ("d" :> "D") @@ ("e" :> "E") @@ ("b" :> "B") @@ ("u" :> "U") @@ ("g" :> "G")
           @@ ("i" :> "I") @@ ("n" :> "N") @@ ("f" :> "F") @@ ("o" :> "O")
           @@ ("c" :> "C") @@ ("a" :> "A") @@ ("t" :> "T") @@ ("r" :> "R")
\* str.upper and str.lower, character by character (ASCII letters; any
\* other character stays as it is).
UpperChar(c) == IF c \in DOMAIN UpperOf THEN UpperOf[c] ELSE c
LowerChar(c) == IF \E x \in DOMAIN UpperOf : UpperOf[x] = c
                THEN CHOOSE x \in DOMAIN UpperOf : UpperOf[x] = c ELSE c
StrUpper(s) == [k \in 1..Len(s) |-> UpperChar(s[k])]
StrLowerIdentity(s) == s
StrLower(s) == [k \in 1..Len(s) |-> LowerChar(s[k])]

\* ConfigurationManager.__init__: self.config
ConfigDefaults == ("debug_mode" :> "False") @@ ("max_connections" :> "100") @@ ("timeout" :> "30")
\* LoggerManager.__init__
LoggerDefaults == ("log_level" :> <<"I", "N", "F", "O">>) @@ ("handlers" :> <<"console">>)
\* DatabaseConnection.__init__, when not yet initialized
DatabaseDefaults == ("connection_string" :> "postgresql://localhost:5432/myapp")
                    @@ ("is_connected" :> FALSE)

Idle == [cls |-> "none", pc |-> "idle", self |-> None, obj |-> NoAttrs]

\* The modules as imported: nothing constructed yet.  shadow starts as the
\* state a first construction gives and is changed by the mutators only.
SingletonsFresh ==
  /\ instance = [c \in Classes |-> None]
  /\ heap = [c \in Classes |-> <<>>]
  /\ slock = [l \in {"SingletonMeta", "singleton"} |-> NoThread]
  /\ frame = [t \in SingletonThreads |-> Idle]
  /\ results = [t \in SingletonThreads |-> <<>>]
  /\ failure = [t \in SingletonThreads |-> NoErr]
  /\ ctorRuns = [c \in Classes |-> 0]
  /\ shadow = [c \in Classes |-> CASE c = "DatabaseConnection" -> DatabaseDefaults
                                  [] c = "ConfigurationManager" -> ConfigDefaults
                                  [] c = "LoggerManager" -> LoggerDefaults]
  /\ steps = 0

\* --------------------------------------------------------------- factory
\* factory_pattern_example.py: AnimalFactory._animal_types
AnimalTypes == (<<"d", "o", "g">> :> "Dog") @@ (<<"c", "a", "t">> :> "Cat")
               @@ (<<"b", "i", "r", "d">> :> "Bird")
NoCall == <<>>

FactoryFresh ==
  /\ animal_types = AnimalTypes
  /\ request = NoCall
  /\ outcome = NoCall
  /\ animals = <<>>

\* ------------------------------------------------------- specification
\* The plain Subject: two ConcreteObservers and one further subclass of the
\* abstract Observer, whose update may call detach on the subject.
SimpleObs == {"Alice", "Bob", "Leaver"}

SimpleFresh ==
  /\ simple_observers = <<>>
  /\ simple_stack = <<>>
  /\ simple_exc = NoErr
  /\ simple_request = NoCall
  /\ simple_calls = 0

\* The two subjects: each __init__ makes a list and a lock of its own.
Subjects == {"event_dispatcher", "system_monitor"}

MultiFresh ==
  /\ multi_observers = [s \in Subjects |-> <<>>]
  /\ multi_lock = [s \in Subjects |-> NoThread]
  /\ multi_frame = [t \in Threads |->
                      [op |-> "none", pc |-> "idle", held |-> FALSE, subject |-> "",
                       observer |-> "", observers_copy |-> <<>>]]
  /\ multi_calls = 0

\* _Cache.__init__, run once when the module is imported.
CacheFresh ==
  /\ cache_data = <<>>
  /\ hits = 0
  /\ misses = 0
  /\ cache_lock = NoThread
  /\ cache_frame = [t \in Workers |->
                      [op |-> "none", pc |-> "idle", key |-> "", value |-> "",
                       hit |-> FALSE, tmp |-> 0]]
  /\ gets = 0
  /\ was_set = <<>>
  /\ cache_calls = 0

Init ==
  /\ observers \in InitialObservers
  /\ lock = [l \in {"subject", "db"} |-> NoThread]
  /\ stack = [t \in Threads |-> <<>>]
  /\ exc = [t \in Threads |-> NoErr]
  /\ raised = [t \in Threads |-> NoErr]
  /\ calls = [t \in Threads |-> 0]
  /\ nAttach = [o \in Obs |-> Count(o, observers)]
  /\ nFound = [o \in Obs |-> 0]
  /\ attachCalls = observers
  /\ pure = TRUE
  /\ status = [o \in Obs |-> IF In(o, observers) THEN "in" ELSE "none"]
  /\ SingletonsFresh
  /\ FactoryFresh
  /\ SimpleFresh
  /\ MultiFresh
  /\ CacheFresh

Next ==
  \E t \in Threads :
    \/ \E o \in Obs : attach_call(t, o)
    \/ \E o \in Obs : detach_call(t, o)
    \/ notify_call(t)
    \/ lock_acquire(t)
    \/ attach_append(t)
    \/ detach_test(t)
    \/ detach_remove(t)
    \/ notify_copy(t)
    \/ notify_for(t)
    \/ WorkerObserver_update(t)
    \/ DatabaseLogger_logging(t)
    \/ DatabaseLogger_update(t)
    \/ custom_return(t)
    \/ custom_raise(t)
    \/ \E c \in CustomCalls : custom_call(t, c[1], c[2])
    \/ unwind(t)

Spec == Init /\ [][Next]_vars

\* ------------------------------------------------------------ properties
Last(s) == s[Len(s)]
UpdateOps == {"worker", "database", "custom"}

\* Frame k of thread t is a notify call that has taken its copy.
Snapped(t, k) == stack[t][k].op = "notify" /\ stack[t][k].pc = "for"
\* Thread t is in a notify call whose loop has no observer left: it returns.
Returning(t) == /\ Running(t)
                /\ Top(t).op = "notify" /\ Top(t).pc = "for"
                /\ Top(t).i > Len(IterTarget(Top(t)))
\* An exception is about to leave thread t's innermost notify call.
Failing(t) == exc[t] # NoErr /\ Depth(t) > 0 /\ Top(t).op = "notify"

\* C1 as stated: every notify call, when it ends (by returning or by an
\* observer's exception), has delivered to exactly the observers that were in
\* the list when its copy was taken, once per occurrence and in list order.
C1_DeliversWholeSnapshot ==
  \A t \in Threads :
    (Returning(t) \/ Failing(t)) => Top(t).delivered = Top(t).snap

\* C1 amended: at every moment of a notify call the observers it has called
\* are a prefix of the list as it was when the copy was taken (so each
\* occurrence once, in list order, whatever the other threads do to the list);
\* the observer being updated is the last of them; and a call that returns
\* has called the whole of that list.  A call ended by an exception has called
\* the prefix of it that ends with the observer that raised.
C1_DeliversSnapshotPrefix ==
  \A t \in Threads : \A k \in 1..Depth(t) :
    Snapped(t, k) =>
      LET f == stack[t][k] IN
        /\ IsPrefix(f.delivered, f.snap)
        /\ (k < Depth(t) => /\ f.delivered # <<>>
                            /\ stack[t][k+1].op \in UpdateOps
                            /\ stack[t][k+1].observer = Last(f.delivered))
        /\ (k = Depth(t) /\ Returning(t) => f.delivered = f.snap)
        /\ (k = Depth(t) /\ Failing(t) => f.delivered # <<>>)

\* C1 witness: a notify call of one thread returns having called every
\* observer of its copy, one of which another thread has detached since.
C1_Witness ==
  \E t \in Threads :
    /\ Returning(t) /\ Depth(t) = 1
    /\ Top(t).delivered = Top(t).snap
    /\ Len(Top(t).snap) >= 2
    /\ \E o \in {"worker", "database"} : In(o, Top(t).snap) /\ ~In(o, observers)

\* C2 as stated: after attach calls H1..Hn made one after the other on the
\* fresh subject, with no other mutation, a notify call has, when it ends,
\* called update on exactly H1..Hn, each once, in that order.
C2_NotifiesAllAttached ==
  pure => \A t \in Threads :
            (Returning(t) \/ Failing(t)) => Top(t).delivered = attachCalls

\* C2 amended: after attach calls H1..Hn made one after the other on the
\* fresh subject, with no other mutation, a notify call copies exactly
\* H1..Hn, calls update(subject, m) with its own message m on a prefix of
\* H1..Hn in that order and on no other observer, and on the whole of H1..Hn
\* when it returns; an update that raises ends the call at that observer.
C2_NotifiesAttachedInOrder ==
  pure => \A t \in Threads : \A k \in 1..Depth(t) :
    Snapped(t, k) =>
      LET f == stack[t][k] IN
        /\ f.observers_copy = attachCalls
        /\ IsPrefix(f.delivered, attachCalls)
        /\ (k < Depth(t) => /\ f.delivered # <<>>
                            /\ stack[t][k+1].observer = Last(f.delivered)
                            /\ stack[t][k+1].message = f.message)
        /\ (k = Depth(t) /\ Returning(t) => f.delivered = attachCalls)

\* C2 witness: two attach calls in a row, then a notify call that returns
\* having called both observers.
C2_Witness ==
  /\ pure
  /\ \E t \in Threads :
       /\ Returning(t)
       /\ Len(attachCalls) >= 2 /\ attachCalls[1] # attachCalls[2]
       /\ Top(t).delivered = attachCalls

\* C3: once every call has returned, the list holds each observer as many
\* times as attach was called with it minus the detach calls that found it,
\* and its length is the sum of these numbers.
C3_NoLostUpdate ==
  Quiescent =>
    /\ \A o \in Obs : Count(o, observers) = nAttach[o] - nFound[o]
    /\ Len(observers) = (nAttach["worker"] + nAttach["database"] + nAttach["custom"])
                         - (nFound["worker"] + nFound["database"] + nFound["custom"])

\* C3 witness: both threads have made calls, among them an attach and a
\* detach that found its observer, and all calls have returned.
C3_Witness ==
  /\ Quiescent
  /\ TotalCalls = MaxCalls
  /\ \A t \in Threads : calls[t] >= 1 /\ exc[t] = NoErr
  /\ \E o \in Obs : nFound[o] = 1 /\ nAttach[o] = 2
  /\ observers # <<>>

\* A frame of the subject's methods that holds the subject's lock.
HoldsSubjectLock(f) == f.held /\ LockOf(f.op) = "subject"

\* C4: the subject's lock is held only by the innermost frame of a thread,
\* and only at the append of attach, the test and remove of detach, or the
\* copy of notify: never by a frame that is calling an observer's update.
C4_LockOnlyAroundListOperation ==
  \A t \in Threads :
    /\ \A k \in 1..Depth(t) :
         HoldsSubjectLock(stack[t][k]) =>
           /\ k = Depth(t)
           /\ lock["subject"] = t
           /\ <<stack[t][k].op, stack[t][k].pc>> \in
                {<<"attach", "append">>, <<"detach", "test">>,
                 <<"detach", "remove">>, <<"notify", "copy">>}
    /\ lock["subject"] = t => Depth(t) > 0 /\ HoldsSubjectLock(Top(t))
    /\ \A k \in 1..Depth(t) :
         stack[t][k].op \in UpdateOps => lock["subject"] # t \/ k < Depth(t)

\* C4 witness: one thread is inside an observer's update for a notify call
\* while another thread holds the subject's lock.
C4_Witness ==
  \E t1, t2 \in Threads :
    /\ t1 # t2
    /\ Running(t1) /\ Top(t1).op \in UpdateOps
    /\ lock["subject"] = t2

\* Thread t waits for a lock that is taken.
Blocked(t) == /\ Running(t)
              /\ Top(t).pc \in WithBlock(Top(t).op)
              /\ ~Top(t).held
              /\ lock[LockOf(Top(t).op)] # NoThread

\* C5: no deadlock.  A thread that waits for a lock never waits for itself
\* (the lock is not re-acquired by its holder), the holder is not waiting
\* for a lock in turn, and while any call is in progress some step is possible.
C5_NoDeadlock ==
  /\ \A t \in Threads :
       Blocked(t) => LET h == lock[LockOf(Top(t).op)] IN
                       h # t /\ Depth(h) > 0 /\ ~Blocked(h)
  /\ AnyInFlight => ENABLED Next

\* C5 witness: inside a notify call an observer's update has called attach or
\* detach on the same subject, and that call has taken the subject's lock.
C5_Witness ==
  \E t \in Threads :
    /\ Depth(t) = 3
    /\ stack[t][1].op = "notify" /\ stack[t][2].op = "custom"
    /\ Top(t).op \in {"attach", "detach"}
    /\ HoldsSubjectLock(Top(t))

\* C7: an exception raised by an observer's update during notify is not
\* caught or changed on its way to the caller; in every notify call it
\* passes through, the observers called are a prefix of the copy that ends
\* with the observer whose update raised (each one before it was called
\* once and returned, none after it is called).
C7_ErrorPropagates ==
  \A t \in Threads :
    /\ raised[t] # NoErr => exc[t] = raised[t]
    /\ exc[t] # NoErr =>
         /\ exc[t][1] = "ObserverError"
         /\ \A k \in 1..Depth(t) :
              stack[t][k].op = "notify" =>
                LET f == stack[t][k] IN
                  /\ f.pc = "for"
                  /\ f.delivered # <<>>
                  /\ IsPrefix(f.delivered, f.snap)
                  /\ f.i = Len(f.delivered) + 1
                  /\ Kind(Last(f.delivered)) = "custom"
                  /\ (k < Depth(t) => stack[t][k+1].observer = Last(f.delivered))
         /\ (Depth(t) > 0 /\ Top(t).op = "custom" /\ Top(t).pc = "body")
              => exc[t] = ObserverError(Top(t).observer, Top(t).message)

\* C7 witness: the first of two observers has raised; the exception is
\* leaving the notify call, which has not called the second one.
C7_Witness ==
  \E t \in Threads :
    /\ Failing(t) /\ Depth(t) = 1
    /\ Len(Top(t).snap) = 2
    /\ Top(t).delivered = <<"custom">>
    /\ Top(t).snap[2] # "custom"
    /\ exc[t] = ObserverError("custom", Top(t).message)

\* C8 as stated: when a notify call takes its copy after a detach(H) call
\* has returned, with no attach(H) called in between, it never calls H.
C8_DetachedNeverNotified ==
  \A t \in Threads : \A k \in 1..Depth(t) :
    Snapped(t, k) =>
      \A h \in Obs : stack[t][k].statusAt[h] \in {"outClean", "outDup"}
                       => ~In(h, stack[t][k].delivered)

\* C8 amended: when a notify call takes its copy after a detach(H) call has
\* returned, with no attach(H) called in between, and H has not been attached
\* more often than a detach found it, the notify call never calls H.
C8_FullyDetachedNeverNotified ==
  \A t \in Threads : \A k \in 1..Depth(t) :
    Snapped(t, k) =>
      \A h \in Obs : stack[t][k].statusAt[h] = "outClean"
                       => ~In(h, stack[t][k].delivered)

\* C8 witness: H was attached, a detach(H) found and removed it, and a notify
\* call that took its copy afterwards returns having called other observers.
C8_Witness ==
  \E t \in Threads : \E h \in Obs :
    /\ Returning(t)
    /\ Top(t).statusAt[h] = "outClean"
    /\ nAttach[h] >= 1 /\ nFound[h] = nAttach[h]
    /\ Top(t).delivered # <<>>
    /\ ~In(h, Top(t).delivered)

\* C10 as stated: a notify call never calls an observer that was not in the
\* list when it took its copy, and, when it ends, it has called every
\* observer whose attach had returned (with no detach called since) when it
\* took its copy.
C10_AttachedAreNotified ==
  \A t \in Threads :
    /\ \A k \in 1..Depth(t) :
         Snapped(t, k) => \A h \in Obs : ~In(h, stack[t][k].snap)
                                           => ~In(h, stack[t][k].delivered)
    /\ (Returning(t) \/ Failing(t)) =>
         \A h \in Obs : Top(t).statusAt[h] = "in" => In(h, Top(t).delivered)

\* C10 amended: a notify call never calls an observer that was not in the
\* list when it took its copy (one attached later, also from inside an update
\* of that call, is not called), and, when it returns, it has called every
\* observer whose attach had returned (with no detach called since) when it
\* took its copy; a call ended by an update that raises has called them up
\* to the observer that raised.
C10_LateAttachNotNotified ==
  \A t \in Threads :
    /\ \A k \in 1..Depth(t) :
         Snapped(t, k) =>
           LET f == stack[t][k] IN
             /\ \A h \in Obs : ~In(h, f.snap) => ~In(h, f.delivered)
             /\ \A h \in Obs : f.statusAt[h] = "in" => In(h, f.snap)
    /\ Returning(t) =>
         \A h \in Obs : Top(t).statusAt[h] = "in" => In(h, Top(t).delivered)
    /\ Failing(t) =>
         \A h \in Obs : Top(t).statusAt[h] = "in" =>
            \/ In(h, Top(t).delivered)
            \/ In(h, SubSeq(Top(t).snap, Len(Top(t).delivered) + 1, Len(Top(t).snap)))

\* C10 witness: a notify call returns; during it the update of one of its
\* observers attached the worker, which was not in the copy, is in the list
\* now, and was not called.
C10_Witness ==
  \E t \in Threads :
    /\ Returning(t) /\ Depth(t) = 1
    /\ \A u \in Threads \ {t} : calls[u] = 0
    /\ In("custom", Top(t).delivered)
    /\ ~In("worker", Top(t).snap)
    /\ In("worker", observers)
    /\ ~In("worker", Top(t).delivered)

\* -------------------------------------------------------------- fairness
\* The scheduler lets every thread run; a lock that keeps becoming free is
\* eventually given to a thread that waits for it.  Nothing makes an
\* observer's update return, and nothing makes a thread call the subject.
subject_lock_acquire(t) == lock_acquire(t) /\ Top(t).op \in SubjectOps

\* The steps of the subject's own code in thread t (at most one is enabled).
subject_step(t) ==
  \/ attach_append(t) \/ detach_test(t) \/ detach_remove(t)
  \/ notify_copy(t) \/ notify_for(t) \/ unwind(t)

\* The subject as constructed: no observer attached yet.
FreshInit == Init /\ observers = <<>>

FairSpec ==
  /\ FreshInit /\ [][Next]_vars
  /\ \A t \in Threads :
       /\ SF_vars(subject_lock_acquire(t))
       /\ WF_vars(subject_step(t))

\* Thread t is in attach, detach or notify and has its list operation
\* (append, test and remove, copy) still to do, waiting for the lock or
\* holding it.
AtListOperation(t) ==
  /\ Running(t)
  /\ Top(t).op \in SubjectOps
  /\ Top(t).pc \in {"append", "test", "remove", "copy"}

\* C6: whatever the updates in progress do (they may never return), a
\* thread that is at the list operation of attach, detach or notify gets
\* past it, and a notify call whose updates have all returned returns.
C6_ListOperationsComplete ==
  \A t \in Threads :
    /\ AtListOperation(t) ~> ~AtListOperation(t)
    /\ Returning(t) ~> ~Returning(t)

\* C6 witness: one thread is inside an observer's update while another has
\* acquired the subject's lock for its list operation.
C6_Witness ==
  \E t1, t2 \in Threads :
    /\ t1 # t2
    /\ Running(t1) /\ Top(t1).op \in UpdateOps /\ Depth(t1) = 2
    /\ AtListOperation(t2) /\ Top(t2).held
    /\ Top(t2).op = "detach"

\* C9: a detach(H) call that holds the lock while H is not in the list
\* returns at its next step: it raises nothing and the list stays as it is.
C9_DetachAbsentIsNoOp ==
  [][\A t \in Threads :
       ( /\ Running(t)
         /\ Top(t).op = "detach" /\ Top(t).held
         /\ ~In(Top(t).observer, observers)
         /\ <<stack[t], exc[t]>>' # <<stack[t], exc[t]>> )
       => /\ observers' = observers
          /\ exc'[t] = NoErr
          /\ stack'[t] = SubSeq(stack[t], 1, Depth(t) - 1)]_vars

\* C9 witness: a detach(H) call has returned for an observer H that no
\* attach call was ever made with, and the list is not empty.
C9_Witness ==
  \E h \in Obs :
    /\ nAttach[h] = 0 /\ nFound[h] = 0
    /\ status[h] = "outClean"
    /\ observers # <<>>

\* C11 as stated: after attach calls made one after the other with no other
\* mutation, the list holds each observer as many times as attach was called
\* with it, and a following notify call has, when it ends, called its update
\* that many times.
C11_DuplicateNotifiedEachTime ==
  pure =>
    /\ (\A h \in Obs : ~InFlight("attach", h)) =>
          \A o \in Obs : Count(o, observers) = nAttach[o]
    /\ \A t \in Threads :
         (Returning(t) \/ Failing(t)) =>
            \A o \in Obs : Count(o, Top(t).delivered) = nAttach[o]

\* C11 amended: after attach calls made one after the other with no other
\* mutation, the list holds each observer as many times as attach was called
\* with it; a following notify call copies it that many times, has called
\* its update that many times when it returns, and at most that many times
\* when an update that raises ends it.
C11_DuplicateNotifiedUnlessRaise ==
  pure =>
    /\ (\A h \in Obs : ~InFlight("attach", h)) =>
          \A o \in Obs : Count(o, observers) = nAttach[o]
    /\ \A t \in Threads : \A k \in 1..Depth(t) :
         Snapped(t, k) =>
           \A o \in Obs :
              /\ Count(o, stack[t][k].snap) = nAttach[o]
              /\ Count(o, stack[t][k].delivered) <= nAttach[o]
              /\ (k = Depth(t) /\ Returning(t)
                    => Count(o, stack[t][k].delivered) = nAttach[o])

\* C11 witness: attach was called twice with the same observer, and a notify
\* call made afterwards returns having called its update twice.
C11_Witness ==
  /\ pure
  /\ \E t \in Threads : \E o \in Obs :
       /\ Returning(t)
       /\ nAttach[o] = 2
       /\ Count(o, observers) = 2
       /\ Count(o, Top(t).delivered) = 2

\* C12: the step of a detach(H) call that removes H takes out the first
\* occurrence of H and nothing else: the entries before it and after it
\* (later occurrences of H included) stay, in the same order, and nothing
\* is raised.
C12_DetachRemovesFirstOnly ==
  [][\A t \in Threads :
       ( /\ Running(t)
         /\ Top(t).op = "detach" /\ Top(t).pc = "remove" /\ Top(t).held
         /\ <<stack[t], exc[t]>>' # <<stack[t], exc[t]>> )
       => LET h == Top(t).observer IN
          /\ exc'[t] = NoErr
          /\ \E k \in 1..Len(observers) :
               /\ observers[k] = h
               /\ \A j \in 1..(k-1) : observers[j] # h
               /\ Len(observers') = Len(observers) - 1
               /\ \A j \in 1..Len(observers') :
                    observers'[j] = IF j < k THEN observers[j] ELSE observers[j+1]]_vars

\* C12 witness: a detach(H) call has found H and is about to remove it from
\* a list that holds H twice with another observer in between.
C12_Witness ==
  \E t \in Threads :
    /\ Running(t)
    /\ Top(t).op = "detach" /\ Top(t).pc = "remove" /\ Top(t).held
    /\ Len(observers) = 3
    /\ observers[1] = Top(t).observer /\ observers[3] = Top(t).observer
    /\ observers[2] # Top(t).observer

\* Thread t is inside a lock-protected section of the subject: at the append
\* of attach, the test or the remove of detach, or the copy of notify, past
\* the `with self._lock:` that stands before it (the remove is reached from
\* the test only, inside the same with block).
InListOperation(t) ==
  /\ Running(t)
  /\ LET f == Top(t) IN
       \/ f.op = "attach" /\ f.pc = "append" /\ f.held
       \/ f.op = "detach" /\ f.pc = "test" /\ f.held
       \/ f.op = "detach" /\ f.pc = "remove"
       \/ f.op = "notify" /\ f.pc = "copy" /\ f.held

\* C18: at most one thread at a time is inside the append of attach, the
\* test-and-remove of detach or the copy of notify, and that thread holds
\* the subject's lock.
C18_ListOperationsExclusive ==
  \A t \in Threads :
    InListOperation(t) =>
      /\ lock["subject"] = t
      /\ \A u \in Threads \ {t} : ~InListOperation(u)

\* C18 witness: one thread is between the test and the remove of detach while
\* the other waits at the lock for its own list operation.
C18_Witness ==
  \E t, u \in Threads :
    /\ t # u
    /\ InListOperation(t) /\ Top(t).pc = "remove"
    /\ Blocked(u) /\ Top(u).op \in SubjectOps

\* C19: a detach call never raises (list.remove always finds its element):
\* between the test of a detach(H) call that found H and its remove, H stays
\* in the list, since no other call removes H or anything else meanwhile; so
\* of two concurrent detach(H) calls on a list holding H once, one finds and
\* removes it and the other finds it absent: no more detach calls find H than
\* attach calls were made with it, and each one that found H has taken out
\* one H.
C19_ConcurrentDetachOneRemoves ==
  /\ \A t \in Threads : exc[t] # ValueError /\ raised[t] # ValueError
  /\ \A t \in Threads : \A k \in 1..Depth(t) :
       (stack[t][k].op = "detach" /\ stack[t][k].pc = "remove") =>
          /\ In(stack[t][k].observer, observers)
          /\ \A u \in Threads \ {t} : \A j \in 1..Depth(u) :
               stack[u][j].op = "detach" => stack[u][j].pc = "test" /\ ~stack[u][j].held
  /\ \A h \in Obs : nFound[h] <= nAttach[h]
  /\ \A h \in Obs :
       ( /\ ~InFlight("attach", h)
         /\ \A t \in Threads : \A k \in 1..Depth(t) :
              ~(stack[t][k].op = "detach" /\ stack[t][k].pc = "remove"
                  /\ stack[t][k].observer = h) )
       => Count(h, observers) = nAttach[h] - nFound[h]

\* C19 witness: both threads called detach(H) on a list holding H once; one
\* has removed H and returned, the other holds the lock at its test and
\* finds H absent.
C19_Witness ==
  \E t, u \in Threads : \E h \in Obs :
    /\ t # u
    /\ calls[t] = 1 /\ Depth(t) = 0 /\ exc[t] = NoErr
    /\ nAttach[h] = 1 /\ nFound[h] = 1 /\ ~In(h, observers)
    /\ observers # <<>>
    /\ calls[u] = 1 /\ Depth(u) = 1
    /\ Top(u).op = "detach" /\ Top(u).observer = h
    /\ Top(u).pc = "test" /\ Top(u).held

\* C20: a step of a notify call itself (taking the lock, the copy, a turn of
\* the loop, its return, an observer's exception leaving it) never changes
\* the list, and the step that ends the call, by return or by exception,
\* leaves the subject's lock not held by the caller's thread; with every
\* call ended, the lock is free.
C20_NotifyLeavesListAndLock ==
  [][/\ \A t \in Threads :
          ( /\ Depth(t) > 0 /\ Top(t).op = "notify"
            /\ stack'[t] # stack[t] )
          => /\ observers' = observers
             /\ (Len(stack'[t]) < Depth(t) =>
                    /\ lock'["subject"] # t
                    /\ exc'[t] = exc[t]
                    /\ (lock["subject"] \notin Threads \ {t}
                          => lock'["subject"] = NoThread))
     /\ Quiescent' => lock'["subject"] = NoThread]_vars

\* C20 witness: an observer's exception has left a notify call of one thread
\* (the thread has ended), the observer that raised is still in the list,
\* and the other thread, in a call on the subject, holds the subject's lock.
C20_Witness ==
  \E t, u \in Threads :
    /\ t # u
    /\ exc[t] # NoErr /\ Depth(t) = 0
    /\ In("custom", observers)
    /\ Depth(u) = 1 /\ Top(u).held /\ Top(u).op \in SubjectOps
    /\ calls[u] = 1 /\ calls[t] = 2

\* ------------------------------------------------- singleton constructors
MaxSteps == 4     \* calls the main thread makes (constructors and mutators)

AttributeError == <<"AttributeError">>

At(t, cls, pc) == failure[t] = NoErr /\ frame[t].cls = cls /\ frame[t].pc = pc
FirstStep(cls) == IF cls = "DatabaseConnection" THEN "new_test" ELSE "check"
Call(cls) == [Idle EXCEPT !.cls = cls, !.pc = FirstStep(cls)]
\* The constructor call of thread t returns object n of class cls.
Returns(t, cls, n) ==
  /\ results' = [results EXCEPT ![t] = Append(@, Ref(cls, n))]
  /\ frame' = [frame EXCEPT ![t] = Idle]

\* DatabaseConnection.__new__: `if cls._instance is None`
new_test(t) ==
  /\ At(t, "DatabaseConnection", "new_test")
  /\ frame' = [frame EXCEPT ![t].pc = IF instance["DatabaseConnection"] = None
                                       THEN "new_create" ELSE "new_return"]
  /\ UNCHANGED <<instance, heap, slock, results, failure, ctorRuns, shadow, steps>>
  /\ UNCHANGED outsideSingleton

\* `cls._instance = super().__new__(cls)`: a new object, with no attribute yet
new_create(t) ==
  /\ At(t, "DatabaseConnection", "new_create")
  /\ heap' = [heap EXCEPT !["DatabaseConnection"] = Append(@, NoAttrs)]
  /\ instance' = [instance EXCEPT !["DatabaseConnection"] = Len(heap["DatabaseConnection"]) + 1]
  /\ frame' = [frame EXCEPT ![t].pc = "new_flag"]
  /\ UNCHANGED <<slock, results, failure, ctorRuns, shadow, steps>>
  /\ UNCHANGED outsideSingleton

\* `cls._instance._initialized = False`: on the object _instance names now
new_flag(t) ==
  /\ At(t, "DatabaseConnection", "new_flag")
  /\ heap' = [heap EXCEPT !["DatabaseConnection"][instance["DatabaseConnection"]] =
                              SetAttr(@, "_initialized", FALSE)]
  /\ frame' = [frame EXCEPT ![t].pc = "new_return"]
  /\ UNCHANGED <<instance, slock, results, failure, ctorRuns, shadow, steps>>
  /\ UNCHANGED outsideSingleton

\* `return cls._instance`; type.__call__ then calls __init__ on the result
new_return(t) ==
  /\ At(t, "DatabaseConnection", "new_return")
  /\ frame' = [frame EXCEPT ![t].self = instance["DatabaseConnection"], ![t].pc = "init_test"]
  /\ UNCHANGED <<instance, heap, slock, results, failure, ctorRuns, shadow, steps>>
  /\ UNCHANGED outsideSingleton

\* DatabaseConnection.__init__: `if not self._initialized`
NeedsInitAlways(attrs) == TRUE
NeedsInit(attrs) == ~attrs["_initialized"]

\* Reading self._initialized raises AttributeError while the thread that
\* created the object has not set it yet.
init_test(t) ==
  /\ At(t, "DatabaseConnection", "init_test")
  /\ LET attrs == heap["DatabaseConnection"][frame[t].self] IN
       IF ~HasAttr(attrs, "_initialized")
       THEN /\ failure' = [failure EXCEPT ![t] = AttributeError]
            /\ frame' = [frame EXCEPT ![t] = Idle]
            /\ results' = results
       ELSE IF NeedsInit(attrs)
       THEN /\ frame' = [frame EXCEPT ![t].pc = "init_body"]
            /\ UNCHANGED <<failure, results>>
       ELSE /\ Returns(t, "DatabaseConnection", frame[t].self)
            /\ failure' = failure
  /\ UNCHANGED <<instance, heap, slock, ctorRuns, shadow, steps>>
  /\ UNCHANGED outsideSingleton

\* The body of __init__: connection_string, is_connected, _initialized
init_body(t) ==
  /\ At(t, "DatabaseConnection", "init_body")
  /\ heap' = [heap EXCEPT !["DatabaseConnection"][frame[t].self] =
               SetAttr(SetAttr(SetAttr(@, "connection_string", DatabaseDefaults["connection_string"]),
                               "is_connected", FALSE),
                       "_initialized", TRUE)]
  /\ ctorRuns' = [ctorRuns EXCEPT !["DatabaseConnection"] = @ + 1]
  /\ Returns(t, "DatabaseConnection", frame[t].self)
  /\ UNCHANGED <<instance, slock, failure, shadow, steps>>
  /\ UNCHANGED outsideSingleton

\* SingletonMeta.__call__, for ConfigurationManager()
\* The second `if cls not in cls._instances`, inside the with block.
MetaRecheckSkipped(inst) == TRUE
MetaRecheck(inst) == inst = None

\* `if cls not in cls._instances`, before the lock
meta_check(t) ==
  /\ At(t, "ConfigurationManager", "check")
  /\ frame' = [frame EXCEPT ![t].pc = IF instance["ConfigurationManager"] = None THEN "lock" ELSE "return"]
  /\ UNCHANGED <<instance, heap, slock, results, failure, ctorRuns, shadow, steps>>
  /\ UNCHANGED outsideSingleton

\* `with cls._lock:` entered: blocks until the lock is free
meta_lock(t) ==
  /\ At(t, "ConfigurationManager", "lock")
  /\ slock["SingletonMeta"] = NoThread
  /\ slock' = [slock EXCEPT !["SingletonMeta"] = t]
  /\ frame' = [frame EXCEPT ![t].pc = "recheck"]
  /\ UNCHANGED <<instance, heap, results, failure, ctorRuns, shadow, steps>>
  /\ UNCHANGED outsideSingleton

\* The second test; finding the instance ends the with block
meta_recheck(t) ==
  /\ At(t, "ConfigurationManager", "recheck")
  /\ IF MetaRecheck(instance["ConfigurationManager"])
     THEN /\ frame' = [frame EXCEPT ![t].pc = "create"]
          /\ slock' = slock
     ELSE /\ frame' = [frame EXCEPT ![t].pc = "return"]
          /\ slock' = [slock EXCEPT !["SingletonMeta"] = NoThread]
  /\ UNCHANGED <<instance, heap, results, failure, ctorRuns, shadow, steps>>
  /\ UNCHANGED outsideSingleton

\* In `instances[cls] = <constructor call>` the right-hand side is evaluated
\* first: when the new object has been allocated, and __init__ has not run
\* yet, the map is as it was.  ref is the new object.
InstanceAfterNewStored(inst, ref) == ref
InstanceAfterNew(inst, ref) == inst

\* `super().__call__(*args, **kwargs)`: a new object is allocated ...
meta_create(t) ==
  /\ At(t, "ConfigurationManager", "create")
  /\ heap' = [heap EXCEPT !["ConfigurationManager"] = Append(@, NoAttrs)]
  /\ instance' = [instance EXCEPT !["ConfigurationManager"] =
                     InstanceAfterNew(@, Len(heap["ConfigurationManager"]) + 1)]
  /\ frame' = [frame EXCEPT ![t].self = Len(heap["ConfigurationManager"]) + 1, ![t].pc = "init"]
  /\ UNCHANGED <<slock, results, failure, ctorRuns, shadow, steps>>
  /\ UNCHANGED outsideSingleton

\* ... and ConfigurationManager.__init__ runs on it
meta_init(t) ==
  /\ At(t, "ConfigurationManager", "init")
  /\ heap' = [heap EXCEPT !["ConfigurationManager"][frame[t].self] = ConfigDefaults]
  /\ ctorRuns' = [ctorRuns EXCEPT !["ConfigurationManager"] = @ + 1]
  /\ frame' = [frame EXCEPT ![t].pc = "store"]
  /\ UNCHANGED <<instance, slock, results, failure, shadow, steps>>
  /\ UNCHANGED outsideSingleton

\* `cls._instances[cls] = ...`, the last statement of the with block
meta_store(t) ==
  /\ At(t, "ConfigurationManager", "store")
  /\ instance' = [instance EXCEPT !["ConfigurationManager"] = frame[t].self]
  /\ slock' = [slock EXCEPT !["SingletonMeta"] = NoThread]
  /\ frame' = [frame EXCEPT ![t].pc = "return"]
  /\ UNCHANGED <<heap, results, failure, ctorRuns, shadow, steps>>
  /\ UNCHANGED outsideSingleton

\* `return cls._instances[cls]`
meta_return(t) ==
  /\ At(t, "ConfigurationManager", "return")
  /\ Returns(t, "ConfigurationManager", instance["ConfigurationManager"])
  /\ UNCHANGED <<instance, heap, slock, failure, ctorRuns, shadow, steps>>
  /\ UNCHANGED outsideSingleton

\* get_instance of the decorator singleton, for LoggerManager()
\* The second `if cls not in instances`, inside the with block.
DecoratorRecheckSkipped(inst) == TRUE
DecoratorRecheck(inst) == inst = None

\* `if cls not in instances`, before the lock
get_instance_check(t) ==
  /\ At(t, "LoggerManager", "check")
  /\ frame' = [frame EXCEPT ![t].pc = IF instance["LoggerManager"] = None THEN "lock" ELSE "return"]
  /\ UNCHANGED <<instance, heap, slock, results, failure, ctorRuns, shadow, steps>>
  /\ UNCHANGED outsideSingleton

\* `with lock:` entered: blocks until the lock is free
get_instance_lock(t) ==
  /\ At(t, "LoggerManager", "lock")
  /\ slock["singleton"] = NoThread
  /\ slock' = [slock EXCEPT !["singleton"] = t]
  /\ frame' = [frame EXCEPT ![t].pc = "recheck"]
  /\ UNCHANGED <<instance, heap, results, failure, ctorRuns, shadow, steps>>
  /\ UNCHANGED outsideSingleton

\* The second test; finding the instance ends the with block
get_instance_recheck(t) ==
  /\ At(t, "LoggerManager", "recheck")
  /\ IF DecoratorRecheck(instance["LoggerManager"])
     THEN /\ frame' = [frame EXCEPT ![t].pc = "create"]
          /\ slock' = slock
     ELSE /\ frame' = [frame EXCEPT ![t].pc = "return"]
          /\ slock' = [slock EXCEPT !["singleton"] = NoThread]
  /\ UNCHANGED <<instance, heap, results, failure, ctorRuns, shadow, steps>>
  /\ UNCHANGED outsideSingleton

\* `cls(*args, **kwargs)`: a new object is allocated ...
get_instance_create(t) ==
  /\ At(t, "LoggerManager", "create")
  /\ heap' = [heap EXCEPT !["LoggerManager"] = Append(@, NoAttrs)]
  /\ instance' = [instance EXCEPT !["LoggerManager"] =
                     InstanceAfterNew(@, Len(heap["LoggerManager"]) + 1)]
  /\ frame' = [frame EXCEPT ![t].self = Len(heap["LoggerManager"]) + 1, ![t].pc = "init"]
  /\ UNCHANGED <<slock, results, failure, ctorRuns, shadow, steps>>
  /\ UNCHANGED outsideSingleton

\* ... and LoggerManager.__init__ runs on it
get_instance_init(t) ==
  /\ At(t, "LoggerManager", "init")
  /\ heap' = [heap EXCEPT !["LoggerManager"][frame[t].self] = LoggerDefaults]
  /\ ctorRuns' = [ctorRuns EXCEPT !["LoggerManager"] = @ + 1]
  /\ frame' = [frame EXCEPT ![t].pc = "store"]
  /\ UNCHANGED <<instance, slock, results, failure, shadow, steps>>
  /\ UNCHANGED outsideSingleton

\* `instances[cls] = ...`, the last statement of the with block
get_instance_store(t) ==
  /\ At(t, "LoggerManager", "store")
  /\ instance' = [instance EXCEPT !["LoggerManager"] = frame[t].self]
  /\ slock' = [slock EXCEPT !["singleton"] = NoThread]
  /\ frame' = [frame EXCEPT ![t].pc = "return"]
  /\ UNCHANGED <<heap, results, failure, ctorRuns, shadow, steps>>
  /\ UNCHANGED outsideSingleton

\* `return instances[cls]`
get_instance_return(t) ==
  /\ At(t, "LoggerManager", "return")
  /\ Returns(t, "LoggerManager", instance["LoggerManager"])
  /\ UNCHANGED <<instance, heap, slock, failure, ctorRuns, shadow, steps>>
  /\ UNCHANGED outsideSingleton

\* ------------------------------------------------- the singletons' callers
\* worker of test_thread_safety (singleton_pattern_example.py): one
\* constructor call of each class, in this order.
WorkerProgram == <<"DatabaseConnection", "ConfigurationManager", "LoggerManager">>

worker_call(t) ==
  /\ t \in Workers
  /\ failure[t] = NoErr /\ frame[t] = Idle
  /\ Len(results[t]) < Len(WorkerProgram)
  /\ frame' = [frame EXCEPT ![t] = Call(WorkerProgram[Len(results[t]) + 1])]
  /\ UNCHANGED <<instance, heap, slock, results, failure, ctorRuns, shadow, steps>>
  /\ UNCHANGED outsideSingleton

\* The main thread, as in the demonstrate_ functions: constructor calls and
\* calls of the mutators through the references it holds, in any order.
MainMayCall == failure[MainThread] = NoErr /\ frame[MainThread] = Idle /\ steps < MaxSteps
RefsOf(t, cls) == {results[t][k] : k \in {j \in 1..Len(results[t]) : results[t][j][1] = cls}}

main_call(cls) ==
  /\ MainMayCall
  /\ steps' = steps + 1
  /\ frame' = [frame EXCEPT ![MainThread] = Call(cls)]
  /\ UNCHANGED <<instance, heap, slock, results, failure, ctorRuns, shadow>>
  /\ UNCHANGED outsideSingleton

\* A mutator called on object r changes r's attributes; shadow follows.
Mutate(r, attrs2, shadow2) ==
  /\ MainMayCall
  /\ steps' = steps + 1
  /\ heap' = [heap EXCEPT ![r[1]][r[2]] = attrs2]
  /\ shadow' = [shadow EXCEPT ![r[1]] = shadow2]
  /\ UNCHANGED <<instance, slock, frame, results, failure, ctorRuns>>
  /\ UNCHANGED outsideSingleton

\* DatabaseConnection.connect
Connect(attrs) == IF ~attrs["is_connected"] THEN SetAttr(attrs, "is_connected", TRUE) ELSE attrs
DatabaseConnection_connect(r) ==
  /\ r \in RefsOf(MainThread, "DatabaseConnection")
  /\ Mutate(r, Connect(heap[r[1]][r[2]]), Connect(shadow[r[1]]))

\* ConfigurationManager.set(key, value)
ConfigSettings == {<<"debug_mode", "True">>, <<"test_mode", "True">>}
ConfigurationManager_set(r, key, value) ==
  /\ r \in RefsOf(MainThread, "ConfigurationManager")
  /\ Mutate(r, SetAttr(heap[r[1]][r[2]], key, value), SetAttr(shadow[r[1]], key, value))

\* LoggerManager.set_level(level)
Levels == {<<"d", "e", "b", "u", "g">>, <<"E", "r", "r", "o", "r">>}
SetLevel(attrs, level) == SetAttr(attrs, "log_level", StrUpper(level))
LoggerManager_set_level(r, level) ==
  /\ r \in RefsOf(MainThread, "LoggerManager")
  /\ Mutate(r, SetLevel(heap[r[1]][r[2]], level), SetLevel(shadow[r[1]], level))

\* LoggerManager.add_handler(handler)
AddHandler(attrs, handler) ==
  IF ~In(handler, attrs["handlers"])
  THEN SetAttr(attrs, "handlers", Append(attrs["handlers"], handler)) ELSE attrs
LoggerManager_add_handler(r, handler) ==
  /\ r \in RefsOf(MainThread, "LoggerManager")
  /\ Mutate(r, AddHandler(heap[r[1]][r[2]], handler), AddHandler(shadow[r[1]], handler))

\* One step of thread t inside a constructor call.
ThreadsNext ==
  \E t \in Workers :
    \/ worker_call(t)
    \/ new_test(t) \/ new_create(t) \/ new_flag(t) \/ new_return(t)
    \/ init_test(t) \/ init_body(t)
    \/ meta_check(t) \/ meta_lock(t) \/ meta_recheck(t)
    \/ meta_create(t) \/ meta_init(t) \/ meta_store(t) \/ meta_return(t)
    \/ get_instance_check(t) \/ get_instance_lock(t) \/ get_instance_recheck(t)
    \/ get_instance_create(t) \/ get_instance_init(t) \/ get_instance_store(t)
    \/ get_instance_return(t)

\* test_thread_safety in a process that has constructed nothing before.
ThreadsSpec == FreshInit /\ [][ThreadsNext]_vars

SequentialNext ==
  \/ \E cls \in Classes : main_call(cls)
  \/ new_test(MainThread) \/ new_create(MainThread) \/ new_flag(MainThread)
  \/ new_return(MainThread) \/ init_test(MainThread) \/ init_body(MainThread)
  \/ meta_check(MainThread) \/ meta_lock(MainThread) \/ meta_recheck(MainThread)
  \/ meta_create(MainThread) \/ meta_init(MainThread) \/ meta_store(MainThread)
  \/ meta_return(MainThread)
  \/ get_instance_check(MainThread) \/ get_instance_lock(MainThread)
  \/ get_instance_recheck(MainThread) \/ get_instance_create(MainThread)
  \/ get_instance_init(MainThread)
  \/ get_instance_store(MainThread) \/ get_instance_return(MainThread)
  \/ \E r \in RefsOf(MainThread, "DatabaseConnection") : DatabaseConnection_connect(r)
  \/ \E r \in RefsOf(MainThread, "ConfigurationManager") :
       \E kv \in ConfigSettings : ConfigurationManager_set(r, kv[1], kv[2])
  \/ \E r \in RefsOf(MainThread, "LoggerManager") :
       \E level \in Levels : LoggerManager_set_level(r, level)
  \/ \E r \in RefsOf(MainThread, "LoggerManager") :
       \E handler \in {"console", "file"} : LoggerManager_add_handler(r, handler)

\* A single thread using the three singletons.
SequentialSpec == FreshInit /\ [][SequentialNext]_vars

\* C13: however the threads interleave, the body of ConfigurationManager.__init__ runs at most once and at most
\* one ConfigurationManager object exists; every ConfigurationManager() call that
\* has returned has returned that one object, after its constructor body
\* ran (exactly once) and with the attributes the body gives it.
C13_ConfigurationManagerOnce ==
  /\ ctorRuns["ConfigurationManager"] <= 1
  /\ Len(heap["ConfigurationManager"]) <= 1
  /\ \A t \in Workers : \A k \in 1..Len(results[t]) :
       results[t][k][1] = "ConfigurationManager" =>
          /\ results[t][k] = Ref("ConfigurationManager", 1)
          /\ instance["ConfigurationManager"] = 1
          /\ ctorRuns["ConfigurationManager"] = 1
          /\ heap["ConfigurationManager"][1] = ConfigDefaults

\* C13 witness: one thread's call has returned the instance while another,
\* which saw no instance at its first test, holds the lock at the second
\* test and finds the instance there; the third is in its call too.
C13_Witness ==
  \E t, u, v \in Workers :
    /\ t # u /\ u # v /\ t # v
    /\ Ref("ConfigurationManager", 1) \in RefsOf(t, "ConfigurationManager")
    /\ At(u, "ConfigurationManager", "recheck") /\ instance["ConfigurationManager"] # None
    /\ frame[v].cls = "ConfigurationManager"

\* C14: however the threads interleave, the instantiation of the wrapped class LoggerManager runs at most once and at most
\* one LoggerManager object exists; every LoggerManager() call that
\* has returned has returned that one object, after its constructor body
\* ran (exactly once) and with the attributes the body gives it.
C14_LoggerManagerOnce ==
  /\ ctorRuns["LoggerManager"] <= 1
  /\ Len(heap["LoggerManager"]) <= 1
  /\ \A t \in Workers : \A k \in 1..Len(results[t]) :
       results[t][k][1] = "LoggerManager" =>
          /\ results[t][k] = Ref("LoggerManager", 1)
          /\ instance["LoggerManager"] = 1
          /\ ctorRuns["LoggerManager"] = 1
          /\ heap["LoggerManager"][1] = LoggerDefaults

\* C14 witness: one thread's call has returned the instance while another,
\* which saw no instance at its first test, holds the lock at the second
\* test and finds the instance there; the third is in its call too.
C14_Witness ==
  \E t, u, v \in Workers :
    /\ t # u /\ u # v /\ t # v
    /\ Ref("LoggerManager", 1) \in RefsOf(t, "LoggerManager")
    /\ At(u, "LoggerManager", "recheck") /\ instance["LoggerManager"] # None
    /\ frame[v].cls = "LoggerManager"

\* C15: only one DatabaseConnection object is ever created, every
\* DatabaseConnection() call of the threads returns, and all return the
\* same object: the ids collected have one element.
C15_DatabaseConnectionOnce ==
  /\ Len(heap["DatabaseConnection"]) <= 1
  /\ \A t \in Workers : failure[t] = NoErr
  /\ \A t, u \in Workers :
       \A r1 \in RefsOf(t, "DatabaseConnection") : \A r2 \in RefsOf(u, "DatabaseConnection") :
          r1 = r2

\* The attributes of an object a caller reads: all but the private flag.
PublicState(attrs) == [k \in (DOMAIN attrs) \ {"_initialized"} |-> attrs[k]]

\* C16: in a single thread, whatever constructor and mutator calls were
\* made, each class has at most one object, whose constructor body ran at
\* most once; every reference a constructor call returned is to that object;
\* and its state is the state the mutator calls so far have produced from
\* the initial one, also while a further constructor call is running.
C16_ReconstructionKeepsState ==
  /\ failure[MainThread] = NoErr
  /\ \A cls \in Classes :
       /\ Len(heap[cls]) <= 1
       /\ ctorRuns[cls] <= 1
       /\ \A r \in RefsOf(MainThread, cls) :
            /\ r = Ref(cls, 1)
            /\ ctorRuns[cls] = 1
            /\ PublicState(heap[cls][r[2]]) = shadow[cls]

\* C16 witness: after connect(), called through a reference obtained before,
\* DatabaseConnection() is called again; the call has reached the test of
\* __init__ and is_connected is still true.
C16_Witness ==
  /\ At(MainThread, "DatabaseConnection", "init_test")
  /\ RefsOf(MainThread, "DatabaseConnection") # {}
  /\ heap["DatabaseConnection"][1]["is_connected"]
  /\ shadow["DatabaseConnection"]["is_connected"]

\* ---------------------------------------------------------- AnimalFactory
MaxAnimals == 2   \* animals constructed in all

\* The strings tried as animal_type: the registered keys in every mix of
\* upper and lower case, "dragon" and near misses of the keys.
RECURSIVE CaseVariants(_)
CaseVariants(w) ==
  IF w = <<>> THEN {<<>>}
  ELSE {<<c>> \o r : c \in {Head(w), UpperChar(Head(w))}, r \in CaseVariants(Tail(w))}
Words == {<<"d", "o", "g">>, <<"c", "a", "t">>, <<"b", "i", "r", "d">>}
Unknown == {<<"d", "r", "a", "g", "o", "n">>, <<"D", "r", "a", "g", "o", "n">>,
            <<"d", "o">>, <<"D", "O">>, <<" ", "d", "o", "g">>, <<"d", "o", "g", "s">>,
            <<"C", "A", "T", " ">>, <<>>}
AnimalTypeInputs == UNION {CaseVariants(w) : w \in Words} \cup Unknown
Names == {"Buddy", "Smaug"}

\* AnimalFactory.create_animal(animal_type, name)
create_animal(animal_type, name) ==
  LET key == StrLower(animal_type) IN
  /\ request' = <<animal_type, name>>
  /\ IF key \notin DOMAIN animal_types
     THEN /\ outcome' = <<"ValueError", key>>
          /\ animals' = animals
     ELSE /\ Len(animals) < MaxAnimals
          /\ outcome' = <<"returned", animal_types[key], name>>
          /\ animals' = Append(animals, <<animal_types[key], name>>)
  /\ animal_types' = animal_types
  /\ UNCHANGED outsideFactory

FactoryNext ==
  \E animal_type \in AnimalTypeInputs : \E name \in Names : create_animal(animal_type, name)

FactorySpec == FreshInit /\ [][FactoryNext]_vars

\* s is w (a string in lower case) with some of its letters in upper case.
IsCaseVariant(s, w) ==
  /\ Len(s) = Len(w)
  /\ \A k \in 1..Len(w) : s[k] = w[k] \/ s[k] = UpperChar(w[k])

\* C17: a create_animal call with an animal_type that is 'dog', 'cat' or
\* 'bird' in any mix of upper and lower case returns an animal of the class
\* registered for that key, carrying the given name, and constructs that
\* one animal; with any other animal_type it raises ValueError and
\* constructs no animal; in both cases the registry stays as it was.
C17_CreateAnimalByLowerCasedType ==
  [][LET ty == request'[1]
         name == request'[2]
         keys == {k \in DOMAIN AnimalTypes : IsCaseVariant(ty, k)}
     IN /\ animal_types' = animal_types
        /\ animal_types = AnimalTypes
        /\ IF keys = {}
           THEN /\ outcome'[1] = "ValueError"
                /\ animals' = animals
           ELSE \A k \in keys :
                  /\ outcome' = <<"returned", AnimalTypes[k], name>>
                  /\ animals' = Append(animals, <<AnimalTypes[k], name>>)]_vars

\* C17 witness: "BiRd" has given a Bird with the name asked for, the second
\* animal constructed.
C17_Witness ==
  /\ request = <<(<<"B", "i", "R", "d">>), "Buddy">>
  /\ outcome = <<"returned", "Bird", "Buddy">>
  /\ Len(animals) = 2

\* ------------------------------------------------ concurrent notify calls
\* C21: two notify calls in different threads do not wait for each other's
\* deliveries, so these may interleave: a thread that waits for the
\* subject's lock waits for a thread that is at a list operation, never for
\* one that is delivering; and within each call the observers called so
\* far are the first ones of its own copy, in the copy's order, each called
\* with that call's message.
C21_DeliveriesInterleave ==
  /\ \A t \in Threads :
       (Blocked(t) /\ LockOf(Top(t).op) = "subject") =>
          LET h == lock["subject"] IN
            /\ h \in Threads \ {t}
            /\ Top(h).op \in SubjectOps
            /\ Top(h).pc \in {"append", "test", "remove", "copy"}
  /\ \A t \in Threads : \A k \in 1..Depth(t) :
       Snapped(t, k) =>
         LET f == stack[t][k] IN
           /\ \A j \in 1..Len(f.delivered) : j <= Len(f.snap) /\ f.delivered[j] = f.snap[j]
           /\ f.i = Len(f.delivered) + 1
           /\ (k < Depth(t) => stack[t][k+1].message = f.message)

\* C21 witness: two notify calls with the same copy <<A, B>> and different
\* messages have each called A and not yet B: whichever message A received
\* first, A has received the other one before B has received that first one.
C21_Witness ==
  \E t1, t2 \in Threads :
    /\ t1 # t2
    /\ Depth(t1) > 0 /\ Depth(t2) > 0
    /\ Snapped(t1, 1) /\ Snapped(t2, 1)
    /\ stack[t1][1].snap = stack[t2][1].snap
    /\ Len(stack[t1][1].snap) = 2
    /\ stack[t1][1].snap[1] # stack[t1][1].snap[2]
    /\ stack[t1][1].delivered = <<stack[t1][1].snap[1]>>
    /\ stack[t2][1].delivered = <<stack[t2][1].snap[1]>>
    /\ stack[t1][1].message # stack[t2][1].message
    /\ Depth(t1) = 1 /\ Depth(t2) = 2

\* --------------------------------------------- instances under construction
\* Object n of class cls has the attributes its __init__ assigns.
Initialised(cls, n) ==
  /\ n \in 1..Len(heap[cls])
  /\ \A k \in IF cls = "ConfigurationManager"
               THEN {"debug_mode", "max_connections", "timeout"}
               ELSE {"log_level", "handlers"} : HasAttr(heap[cls][n], k)

\* C26: with SingletonMeta (ConfigurationManager) and with the decorator
\* (LoggerManager), the object in the instances map, the object a thread is
\* about to return and every object a constructor call has returned have
\* been through __init__: an object whose __init__ has not finished is known
\* to the thread constructing it only.
C26_NoUninitialisedInstance ==
  \A cls \in {"ConfigurationManager", "LoggerManager"} :
    /\ instance[cls] # None => Initialised(cls, instance[cls])
    /\ \A t \in SingletonThreads :
         /\ At(t, cls, "return") => instance[cls] # None /\ Initialised(cls, instance[cls])
         /\ \A r \in RefsOf(t, cls) : Initialised(cls, r[2])
    /\ \A n \in 1..Len(heap[cls]) :
         ~Initialised(cls, n) =>
            /\ instance[cls] = None
            /\ \E t \in SingletonThreads : At(t, cls, "init") /\ frame[t].self = n

\* C26 witness: one thread has allocated the object and not yet run its
\* __init__, while another thread is at the first, unlocked test of the
\* same class, and will find no instance.
C26_Witness ==
  \E cls \in {"ConfigurationManager", "LoggerManager"} :
    \E t1, t2 \in SingletonThreads :
      /\ t1 # t2
      /\ At(t1, cls, "init")
      /\ ~Initialised(cls, frame[t1].self)
      /\ At(t2, cls, "check")
      /\ instance[cls] = None

\* ------------------------------------------- the DatabaseLogger's writes
\* time.sleep returns, so a thread inside the DatabaseLogger's with block
\* goes on; the DatabaseLogger's lock, which becomes free after every
\* write, is eventually given to a thread that waits for it.
DatabaseFairSpec ==
  /\ FreshInit /\ [][Next]_vars
  /\ \A t \in Threads :
       /\ SF_vars(lock_acquire(t) /\ Top(t).op = "database")
       /\ WF_vars(DatabaseLogger_logging(t) \/ DatabaseLogger_update(t))

\* Thread t is in DatabaseLogger.update; it is writing when it is past the
\* "logging" line and before the "write completed" line.
InDatabaseUpdate(t) == Depth(t) > 0 /\ Top(t).op = "database"
Writing(t) == InDatabaseUpdate(t) /\ Top(t).pc = "sleep"

\* C25: at most one thread at a time is between the "logging" line and the
\* "write completed" line of the DatabaseLogger, and every thread that
\* enters the DatabaseLogger's update gets to the end of it.
C25_DatabaseWritesSerialized ==
  /\ [](\A t1, t2 \in Threads : Writing(t1) /\ Writing(t2) => t1 = t2)
  /\ \A t \in Threads : InDatabaseUpdate(t) ~> ~InDatabaseUpdate(t)

\* C25 witness: two notify calls have the DatabaseLogger in their copies;
\* one thread is writing while the other waits for the DatabaseLogger's lock.
C25_Witness ==
  \E t1, t2 \in Threads :
    /\ t1 # t2
    /\ Writing(t1) /\ lock["db"] = t1
    /\ InDatabaseUpdate(t2) /\ Top(t2).pc = "write" /\ ~Top(t2).held
    /\ Depth(t1) = 2 /\ Depth(t2) = 2
    /\ In("database", stack[t1][1].snap) /\ In("database", stack[t2][1].snap)

\* ---------------------------------------------------- the plain Subject
\* observer_pattern_example.py: Subject keeps a list with no lock; notify
\* iterates over the list itself.  One thread calls attach, detach and
\* notify; the update of the Leaver observer may call detach.
MaxSimpleCalls == 4   \* calls on the plain subject (nested ones included)

\* list.remove(x) raises ValueError when x is not in the list.
RemoveNeverRaises(o, s) == FALSE
RemoveRaises(o, s) == ~In(o, s)

\* attach(observer), called by the program: self._observers.append(observer)
simple_attach(o) ==
  /\ simple_stack = <<>> /\ simple_exc = NoErr
  /\ simple_calls < MaxSimpleCalls
  /\ simple_observers' = ListAppend(simple_observers, o)
  /\ simple_request' = <<"attach", o>>
  /\ simple_calls' = simple_calls + 1
  /\ UNCHANGED <<simple_stack, simple_exc>>
  /\ UNCHANGED <<subjectVars, singletonVars, factoryVars, multiVars, cacheVars>>

\* detach(observer), called by the program or by the Leaver's update:
\* self._observers.remove(observer), with nothing around it.
simple_detach(o) ==
  /\ simple_exc = NoErr
  /\ simple_calls < MaxSimpleCalls
  /\ \/ simple_stack = <<>>
     \/ /\ simple_stack # <<>>
        /\ Last(simple_stack).op = "update"
        /\ Last(simple_stack).observer = "Leaver"
  /\ IF RemoveRaises(o, simple_observers)
       THEN /\ simple_exc' = ValueError
            /\ UNCHANGED simple_observers
       ELSE /\ simple_observers' = IF In(o, simple_observers)
                                      THEN ListRemove(simple_observers, o)
                                      ELSE simple_observers
            /\ UNCHANGED simple_exc
  /\ simple_request' = <<"detach", o>>
  /\ simple_calls' = simple_calls + 1
  /\ UNCHANGED simple_stack
  /\ UNCHANGED <<subjectVars, singletonVars, factoryVars, multiVars, cacheVars>>

\* notify(message), called by the program: the for statement makes an
\* iterator over self._observers, positioned at its first element.
\* atCall and delivered are history.
simple_notify(m) ==
  /\ simple_stack = <<>> /\ simple_exc = NoErr
  /\ simple_calls < MaxSimpleCalls
  /\ simple_stack' = <<[op |-> "notify", message |-> m, observer |-> "", i |-> 1,
                        atCall |-> simple_observers, delivered |-> <<>>]>>
  /\ simple_request' = <<"notify", m>>
  /\ simple_calls' = simple_calls + 1
  /\ UNCHANGED <<simple_observers, simple_exc>>
  /\ UNCHANGED <<subjectVars, singletonVars, factoryVars, multiVars, cacheVars>>

\* One turn of "for observer in self._observers": the list iterator yields
\* the element at its index in the list as it is now and moves on, or ends
\* the loop when the index is past the end of the list as it is now.
simple_for ==
  /\ simple_stack # <<>> /\ simple_exc = NoErr
  /\ Last(simple_stack).op = "notify"
  /\ LET f == Last(simple_stack) IN
       IF f.i <= Len(simple_observers)
         THEN LET o == simple_observers[f.i] IN
              simple_stack' = <<[f EXCEPT !.i = @ + 1, !.delivered = Append(@, o)],
                                [op |-> "update", message |-> f.message, observer |-> o,
                                 i |-> 0, atCall |-> <<>>, delivered |-> <<>>]>>
         ELSE simple_stack' = <<>>
  /\ UNCHANGED <<simple_observers, simple_exc, simple_request, simple_calls>>
  /\ UNCHANGED <<subjectVars, singletonVars, factoryVars, multiVars, cacheVars>>

\* update returns: ConcreteObserver.update prints and returns, and so does
\* the Leaver's after the detach calls it made, if any.
simple_update_return ==
  /\ simple_stack # <<>> /\ simple_exc = NoErr
  /\ Last(simple_stack).op = "update"
  /\ simple_stack' = SubSeq(simple_stack, 1, Len(simple_stack) - 1)
  /\ UNCHANGED <<simple_observers, simple_exc, simple_request, simple_calls>>
  /\ UNCHANGED <<subjectVars, singletonVars, factoryVars, multiVars, cacheVars>>

\* Neither update nor notify catches anything: an exception leaves every
\* frame in turn.
simple_unwind ==
  /\ simple_stack # <<>> /\ simple_exc # NoErr
  /\ simple_stack' = SubSeq(simple_stack, 1, Len(simple_stack) - 1)
  /\ UNCHANGED <<simple_observers, simple_exc, simple_request, simple_calls>>
  /\ UNCHANGED <<subjectVars, singletonVars, factoryVars, multiVars, cacheVars>>

SimpleNext ==
  \/ \E o \in SimpleObs : simple_attach(o)
  \/ \E o \in SimpleObs : simple_detach(o)
  \/ \E m \in {"Breaking news!", "Weather update"} : simple_notify(m)
  \/ simple_for
  \/ simple_update_return
  \/ simple_unwind

SimpleSpec == FreshInit /\ [][SimpleNext]_vars

\* C22: when the loop of the plain Subject's notify ends, update has been
\* called exactly once on every observer that was in the list when notify
\* was called, in list order, whatever the updates did to the list.
C22_SimpleNotifyReachesAll ==
  (/\ simple_stack # <<>> /\ simple_exc = NoErr
   /\ Last(simple_stack).op = "notify"
   /\ Last(simple_stack).i > Len(simple_observers))
    => Last(simple_stack).delivered = Last(simple_stack).atCall

\* C23: a detach call of the plain Subject with an observer that is not in
\* the list raises ValueError and leaves the list as it was.
C23_SimpleDetachAbsentRaises ==
  [][\A h \in SimpleObs :
       (/\ simple_calls' = simple_calls + 1
        /\ simple_request' = <<"detach", h>>
        /\ ~In(h, simple_observers))
         => /\ simple_exc' = ValueError
            /\ simple_observers' = simple_observers]_vars

\* C23 witness: a detach call with an observer that is not in the non-empty
\* list has raised ValueError.
C23_Witness ==
  /\ simple_exc = ValueError
  /\ simple_observers # <<>>
  /\ \E h \in SimpleObs : simple_request = <<"detach", h>> /\ ~In(h, simple_observers)

\* ------------------------------------------------------ two subjects
\* Two threads call attach, detach and notify on either of the two
\* ThreadSafeSubject objects.
MaxMultiCalls == 3   \* calls on the two subjects in all

\* self._lock of subject s: made in __init__, one per object.
LockKeyShared(s) == "event_dispatcher"
LockKey(s) == s

multi_call(t, op, s, o) ==
  /\ multi_frame[t].pc = "idle"
  /\ multi_calls < MaxMultiCalls
  /\ multi_frame' = [multi_frame EXCEPT ![t] =
                       [op |-> op, pc |-> FirstPc(op), held |-> FALSE, subject |-> s,
                        observer |-> o, observers_copy |-> <<>>]]
  /\ multi_calls' = multi_calls + 1
  /\ UNCHANGED <<multi_observers, multi_lock>>
  /\ UNCHANGED <<subjectVars, singletonVars, factoryVars, simpleVars, cacheVars>>

\* `with self._lock:` of attach, detach and notify: blocks while the lock
\* of this subject is taken.
multi_lock_acquire(t) ==
  LET f == multi_frame[t] IN
    /\ f.pc \in {"append", "test", "copy"} /\ ~f.held
    /\ multi_lock[LockKey(f.subject)] = NoThread
    /\ multi_lock' = [multi_lock EXCEPT ![LockKey(f.subject)] = t]
    /\ multi_frame' = [multi_frame EXCEPT ![t].held = TRUE]
    /\ UNCHANGED <<multi_observers, multi_calls>>
    /\ UNCHANGED <<subjectVars, singletonVars, factoryVars, simpleVars, cacheVars>>

\* The with block of thread t's call is left and the call is at pc.
MultiLeave(t, pc) ==
  /\ multi_lock' = [multi_lock EXCEPT ![LockKey(multi_frame[t].subject)] = NoThread]
  /\ multi_frame' = [multi_frame EXCEPT ![t].held = FALSE, ![t].pc = pc]

multi_attach(t) ==
  LET f == multi_frame[t] IN
    /\ f.pc = "append" /\ f.held
    /\ multi_observers' = [multi_observers EXCEPT ![f.subject] = ListAppend(@, f.observer)]
    /\ MultiLeave(t, "idle")
    /\ UNCHANGED multi_calls
    /\ UNCHANGED <<subjectVars, singletonVars, factoryVars, simpleVars, cacheVars>>

multi_detach_test(t) ==
  LET f == multi_frame[t] IN
    /\ f.pc = "test" /\ f.held
    /\ IF In(f.observer, multi_observers[f.subject])
         THEN /\ multi_frame' = [multi_frame EXCEPT ![t].pc = "remove"]
              /\ UNCHANGED multi_lock
         ELSE MultiLeave(t, "idle")
    /\ UNCHANGED <<multi_observers, multi_calls>>
    /\ UNCHANGED <<subjectVars, singletonVars, factoryVars, simpleVars, cacheVars>>

multi_detach_remove(t) ==
  LET f == multi_frame[t] IN
    /\ f.pc = "remove" /\ f.held
    /\ multi_observers' = [multi_observers EXCEPT ![f.subject] =
                              IF In(f.observer, @) THEN ListRemove(@, f.observer) ELSE @]
    /\ MultiLeave(t, "idle")
    /\ UNCHANGED multi_calls
    /\ UNCHANGED <<subjectVars, singletonVars, factoryVars, simpleVars, cacheVars>>

\* notify: the copy under the lock, then the updates outside it.
multi_notify_copy(t) ==
  LET f == multi_frame[t] IN
    /\ f.pc = "copy" /\ f.held
    /\ multi_lock' = [multi_lock EXCEPT ![LockKey(f.subject)] = NoThread]
    /\ multi_frame' = [multi_frame EXCEPT ![t].held = FALSE, ![t].pc = "for",
                                          ![t].observers_copy = multi_observers[f.subject]]
    /\ UNCHANGED <<multi_observers, multi_calls>>
    /\ UNCHANGED <<subjectVars, singletonVars, factoryVars, simpleVars, cacheVars>>

multi_notify_for(t) ==
  /\ multi_frame[t].pc = "for"
  /\ multi_frame' = [multi_frame EXCEPT ![t].pc = "idle"]
  /\ UNCHANGED <<multi_observers, multi_lock, multi_calls>>
  /\ UNCHANGED <<subjectVars, singletonVars, factoryVars, simpleVars, cacheVars>>

MultiNext ==
  \E t \in Threads :
    \/ \E op \in SubjectOps, s \in Subjects, o \in {"worker", "database"} :
         multi_call(t, op, s, o)
    \/ multi_lock_acquire(t)
    \/ multi_attach(t)
    \/ multi_detach_test(t)
    \/ multi_detach_remove(t)
    \/ multi_notify_copy(t)
    \/ multi_notify_for(t)

MultiSpec == FreshInit /\ [][MultiNext]_vars

\* C24: a thread that waits at the with statement of attach, detach or
\* notify on one subject can take the lock unless another thread is inside
\* a with block of that same subject; what threads do on the other subject
\* never keeps it waiting.  A subject's lock is held only by a thread that
\* is in a call on that subject.
C24_SubjectsDoNotBlockEachOther ==
  /\ \A t \in Threads :
       (multi_frame[t].pc \in {"append", "test", "copy"} /\ ~multi_frame[t].held) =>
          \/ ENABLED multi_lock_acquire(t)
          \/ \E u \in Threads \ {t} :
                /\ multi_frame[u].held
                /\ multi_frame[u].subject = multi_frame[t].subject
  /\ \A s \in Subjects :
       multi_lock[s] \in Threads =>
          /\ multi_frame[multi_lock[s]].held
          /\ multi_frame[multi_lock[s]].subject = s

\* C24 witness: one thread holds the lock of one subject, inside attach or
\* detach, while the other thread has taken the lock of the other subject.
C24_Witness ==
  \E t1, t2 \in Threads :
    /\ multi_lock["event_dispatcher"] = t1
    /\ multi_lock["system_monitor"] = t2
    /\ multi_frame[t1].subject = "event_dispatcher" /\ multi_frame[t1].held
    /\ multi_frame[t2].subject = "system_monitor" /\ multi_frame[t2].held
    /\ multi_frame[t1].op \in {"attach", "detach"}

\* ------------------------------------------------------------ app_cache
\* Threads call get and set on the module's cache.  `self.hits += 1` is a
\* read of the attribute, an addition and a write of the attribute.
MaxCacheCalls == 3   \* get and set calls on the cache in all

\* threading.RLock: free for a thread when no other thread holds it.
RLockAlwaysFree(holder, t) == TRUE
RLockFree(holder, t) == holder \in {NoThread, t}

cache_call(t, op, key, value) ==
  /\ cache_frame[t].pc = "idle"
  /\ cache_calls < MaxCacheCalls
  /\ cache_frame' = [cache_frame EXCEPT ![t] =
                       [op |-> op, pc |-> "with", key |-> key,
                        value |-> IF op = "set" THEN value ELSE "",
                        hit |-> FALSE, tmp |-> 0]]
  /\ cache_calls' = cache_calls + 1
  /\ UNCHANGED <<cache_data, hits, misses, cache_lock, gets, was_set>>
  /\ UNCHANGED <<subjectVars, singletonVars, factoryVars, simpleVars, multiVars>>

\* `with self._lock:` of get and set
cache_acquire(t) ==
  /\ cache_frame[t].pc = "with"
  /\ RLockFree(cache_lock, t)
  /\ cache_lock' = t
  /\ cache_frame' = [cache_frame EXCEPT ![t].pc = IF cache_frame[t].op = "get"
                                                   THEN "test" ELSE "assign"]
  /\ UNCHANGED <<cache_data, hits, misses, gets, was_set, cache_calls>>
  /\ UNCHANGED <<subjectVars, singletonVars, factoryVars, simpleVars, multiVars>>

\* get: `if key in self.data`
cache_get_test(t) ==
  /\ cache_frame[t].pc = "test"
  /\ cache_frame' = [cache_frame EXCEPT ![t].hit = cache_frame[t].key \in DOMAIN cache_data,
                                          ![t].pc = "read"]
  /\ UNCHANGED <<cache_data, hits, misses, cache_lock, gets, was_set, cache_calls>>
  /\ UNCHANGED <<subjectVars, singletonVars, factoryVars, simpleVars, multiVars>>

\* get: `self.hits += 1` or `self.misses += 1`, the read ...
cache_count_read(t) ==
  /\ cache_frame[t].pc = "read"
  /\ cache_frame' = [cache_frame EXCEPT ![t].tmp = IF cache_frame[t].hit THEN hits ELSE misses,
                                          ![t].pc = "write"]
  /\ UNCHANGED <<cache_data, hits, misses, cache_lock, gets, was_set, cache_calls>>
  /\ UNCHANGED <<subjectVars, singletonVars, factoryVars, simpleVars, multiVars>>

\* ... and the write
cache_count_write(t) ==
  /\ cache_frame[t].pc = "write"
  /\ IF cache_frame[t].hit
       THEN hits' = cache_frame[t].tmp + 1 /\ UNCHANGED misses
       ELSE misses' = cache_frame[t].tmp + 1 /\ UNCHANGED hits
  /\ cache_frame' = [cache_frame EXCEPT ![t].pc = "return"]
  /\ UNCHANGED <<cache_data, cache_lock, gets, was_set, cache_calls>>
  /\ UNCHANGED <<subjectVars, singletonVars, factoryVars, simpleVars, multiVars>>

\* get: `return self.data[key]` or `return None`; the with block is left
cache_get_return(t) ==
  /\ cache_frame[t].pc = "return"
  /\ cache_frame' = [cache_frame EXCEPT ![t].pc = "idle",
                                          ![t].value = IF cache_frame[t].hit
                                                       THEN cache_data[cache_frame[t].key]
                                                       ELSE "None"]
  /\ cache_lock' = NoThread
  /\ gets' = gets + 1
  /\ UNCHANGED <<cache_data, hits, misses, was_set, cache_calls>>
  /\ UNCHANGED <<subjectVars, singletonVars, factoryVars, simpleVars, multiVars>>

\* set: `self.data[key] = value`; the with block is left
cache_set(t) ==
  /\ cache_frame[t].pc = "assign"
  /\ LET f == cache_frame[t]
         put(d) == [k \in (DOMAIN d) \cup {f.key} |-> IF k = f.key THEN f.value ELSE d[k]]
     IN /\ cache_data' = put(cache_data)
        /\ was_set' = put(was_set)
  /\ cache_frame' = [cache_frame EXCEPT ![t].pc = "idle"]
  /\ cache_lock' = NoThread
  /\ UNCHANGED <<hits, misses, gets, cache_calls>>
  /\ UNCHANGED <<subjectVars, singletonVars, factoryVars, simpleVars, multiVars>>

CacheNext ==
  \E t \in Workers :
    \/ \E op \in {"get", "set"}, key \in {"user:1", "user:2"}, value \in {"Alice", "Bob"} :
         cache_call(t, op, key, value)
    \/ cache_acquire(t)
    \/ cache_get_test(t)
    \/ cache_count_read(t)
    \/ cache_count_write(t)
    \/ cache_get_return(t)
    \/ cache_set(t)

CacheSpec == FreshInit /\ [][CacheNext]_vars

\* C27: hits + misses is the number of get calls that have returned or
\* have counted and are about to return; a get call past its test counts as
\* a hit exactly if a set of its key has assigned; and at its return
\* statement a hit finds in the dict the value of the last set of its key.
C27_CacheCountsEveryGet ==
  /\ hits + misses =
       gets + Cardinality({t \in Workers : cache_frame[t].op = "get"
                                            /\ cache_frame[t].pc = "return"})
  /\ \A t \in Workers :
       LET f == cache_frame[t] IN
         (f.op = "get" /\ f.pc \in {"read", "write", "return"}) =>
            /\ f.hit <=> f.key \in DOMAIN was_set
            /\ f.hit => /\ f.key \in DOMAIN cache_data
                        /\ cache_data[f.key] = was_set[f.key]

\* C27 witness: after a set of a key, one thread is in get for that key
\* between the read and the write of hits, while another thread, also in
\* get for that key, waits for the lock.
C27_Witness ==
  \E t1, t2 \in Workers :
    /\ t1 # t2
    /\ cache_frame[t1].op = "get" /\ cache_frame[t1].pc = "write" /\ cache_frame[t1].hit
    /\ cache_lock = t1
    /\ cache_frame[t2].op = "get" /\ cache_frame[t2].pc = "with"
    /\ cache_frame[t2].key = cache_frame[t1].key

====
